---------------------------- MODULE Spec2Model ----------------------------
(***************************************************************************)
(* A model of sicpy: the pair heap (scheme.py), the FIFO queue (queue.py), *)
(* the agenda (circuit/agenda.py), wires (circuit/wire.py), gates          *)
(* (circuit/gates.py) and the half-adder demonstration                     *)
(* (circuit/simulation).                                                   *)
(*                                                                         *)
(* Pairs are mutable and shared, so they live in a heap: heap[x] is the    *)
(* pair at address x, and NULL (Python's None, the empty list) is 0.       *)
(* An operator that allocates returns the heap whose last cell is the      *)
(* pair it made.                                                           *)
(***************************************************************************)
EXTENDS Integers, Sequences, FiniteSets, TLC

VARIABLES
  heap,      \* the Cons cells allocated so far: Seq([car, cdr])
  q,         \* SpecQueue: the queue under test (an address)
  qin,       \* history: the items given to insert_queue, in call order
  qout,      \* history: the front item at each successful delete_queue
  agenda,    \* the_agenda(): the address of the agenda pair
  wires,     \* wires[w]: the closure variables of make_wire's w-th wire
  log,       \* what the probes have displayed: Seq([name, time, value])
  sched,     \* history: sched[i] is the time action i was added for
  executed,  \* history: the actions run, each with the time it ran at
  removed,   \* history: the actions taken off the agenda, in order
  early,     \* history: add_to_agenda was called for a time before current_time
  inputs,    \* the wires the driver sets: the circuit's inputs
  calls,     \* history: the driver's set_signal calls
  observers, \* history: the add_action calls, in call order: Seq([wire, proc])
  invoked,   \* history: the action procedures called, in call order
  pc,        \* the driver: "idle", or "propagate" inside propagate's loop
  ret,       \* what the last call returned
  raised     \* the message of the SchemeError the last call raised, or ""

vars == << heap, q, qin, qout, agenda, wires, log, sched, executed, removed,
           early, inputs, calls, observers, invoked, pc, ret, raised >>

-----------------------------------------------------------------------------
(* Bounds of the model. *)

MaxInserts == 4          \* insert_queue calls in SpecQueue
MaxAdds == 3             \* add_to_agenda calls in SpecAgenda
MaxTime == 2             \* times offered to add_to_agenda in SpecAgenda
MaxSets == 3             \* set_signal calls by the driver of a circuit
MaxObservers == 3        \* add_action calls by the driver in SpecWire
MaxWireSets == 2         \* set_signal calls by the driver in SpecWire
MaxDelay == 2            \* delays given to after_delay in SpecDelay
MaxSignal == 3           \* values given to the logic functions in SpecLogic
MaxLogicCalls == 2       \* calls of the logic functions in SpecLogic
MaxSteps == 6            \* turns of propagate's loop followed in SpecOscillator

Items == {"a", "b", "c"}

-----------------------------------------------------------------------------
(* scheme.py: pairs *)

NULL == 0

null(x) == x = NULL

cons(h, a, b) == Append(h, [car |-> a, cdr |-> b])

car(h, x) == IF x = NULL THEN NULL ELSE h[x].car

cdr(h, x) == IF x = NULL THEN NULL ELSE h[x].cdr

set_car(h, x, v) == [h EXCEPT ![x].car = v]

set_cdr(h, x, v) == [h EXCEPT ![x].cdr = v]

error(msg) == [raised |-> msg]

(* repr of a str: itself when it is an identifier, as the items are, and   *)
(* Python's quoted form otherwise.                                         *)
repr_str(x) == IF x \in Items THEN x ELSE "'" \o x \o "'"

(* The loop of Cons.__repr__ from pair l on, for a list of strs that ends  *)
(* in None: each car rendered, with sep before all but the first.          *)
RECURSIVE repr_tail(_, _, _)
repr_tail(h, l, sep) ==
  IF l = NULL THEN "" ELSE sep \o repr_str(h[l].car) \o repr_tail(h, h[l].cdr, " ")

(* repr of a list of strs: "()" for None, Cons.__repr__ for a pair. *)
repr_list(h, l) == IF l = NULL THEN "()" ELSE "(" \o repr_tail(h, l, "") \o ")"

(* Cons.__repr__ of a pair whose car is a list of strs and whose cdr is a  *)
(* list of strs too: the car is rendered as a list, and the loop goes on   *)
(* along the cdr.                                                          *)
repr(h, x) == "(" \o repr_list(h, h[x].car) \o repr_tail(h, h[x].cdr, " ") \o ")"

-----------------------------------------------------------------------------
(* queue.py *)

front_ptr(h, queue) == car(h, queue)

rear_ptr(h, queue) == cdr(h, queue)

set_front_ptr(h, queue, item) == set_car(h, queue, item)

set_rear_ptr(h, queue, item) == set_cdr(h, queue, item)

(* Faulty variant: a queue is taken as empty when its rear pointer is None. *)
empty_queue_p_rear(h, queue) == null(rear_ptr(h, queue))

empty_queue_p(h, queue) == null(front_ptr(h, queue))

make_queue(h) == cons(h, NULL, NULL)

FrontEmptyMsg == "FRONT called with an empty queue"

front_queue(h, queue) ==
  IF empty_queue_p(h, queue)
    THEN error(FrontEmptyMsg)
    ELSE car(h, front_ptr(h, queue))

(* Faulty variant: the new pair is put at the front of the chain. *)
insert_queue_lifo(h, queue, item) ==
  LET h1 == cons(h, item, front_ptr(h, queue))
      new_pair == Len(h1)
  IN  IF empty_queue_p(h1, queue)
        THEN set_rear_ptr(set_front_ptr(h1, queue, new_pair), queue, new_pair)
        ELSE set_front_ptr(h1, queue, new_pair)

(* Faulty variant: the rear pointer is not advanced to the new pair. *)
insert_queue_keeps_rear(h, queue, item) ==
  LET h1 == cons(h, item, NULL)
      new_pair == Len(h1)
  IN  IF empty_queue_p(h1, queue)
        THEN set_rear_ptr(set_front_ptr(h1, queue, new_pair), queue, new_pair)
        ELSE set_cdr(h1, rear_ptr(h1, queue), new_pair)

insert_queue(h, queue, item) ==
  LET h1 == cons(h, item, NULL)
      new_pair == Len(h1)
  IN  IF empty_queue_p(h1, queue)
        THEN set_rear_ptr(set_front_ptr(h1, queue, new_pair), queue, new_pair)
        ELSE set_rear_ptr(set_cdr(h1, rear_ptr(h1, queue), new_pair),
                          queue, new_pair)

DeleteEmptyMsg == "DELETE! called with an empty queue"

(* Faulty variant: the rear pointer is cleared when the last item goes. *)
delete_queue_resets_rear(h, queue) ==
  IF empty_queue_p(h, queue)
    THEN h
    ELSE LET h1 == set_front_ptr(h, queue, cdr(h, front_ptr(h, queue)))
         IN  IF empty_queue_p(h1, queue) THEN set_rear_ptr(h1, queue, NULL) ELSE h1

(* Faulty variant: on an empty queue the rear pointer is cleared before the *)
(* error is raised.                                                        *)
delete_queue_clears_rear(h, queue) ==
  IF empty_queue_p(h, queue)
    THEN set_rear_ptr(h, queue, NULL)
    ELSE set_front_ptr(h, queue, cdr(h, front_ptr(h, queue)))

(* delete_queue raises on an empty queue and so leaves the heap as it is. *)
delete_queue_raises(h, queue) == empty_queue_p(h, queue)

delete_queue(h, queue) ==
  IF empty_queue_p(h, queue)
    THEN h
    ELSE set_front_ptr(h, queue, cdr(h, front_ptr(h, queue)))

(* The items of the chain that starts at pair x, front first. *)
RECURSIVE chain(_, _)
chain(h, x) == IF null(x) THEN << >> ELSE << car(h, x) >> \o chain(h, cdr(h, x))

-----------------------------------------------------------------------------
(* circuit/agenda.py *)

make_time_segment(h, time, queue) == cons(h, time, queue)

segment_time(h, s) == car(h, s)

segment_queue(h, s) == cdr(h, s)

(* list(0): one pair holding the current time, with no segments after it. *)
make_agenda(h) == cons(h, 0, NULL)

current_time(h, ag) == car(h, ag)

set_current_time(h, ag, time) == set_car(h, ag, time)

segments(h, ag) == cdr(h, ag)

set_segments(h, ag, segs) == set_cdr(h, ag, segs)

first_segment(h, ag) == car(h, segments(h, ag))

rest_segments(h, ag) == cdr(h, segments(h, ag))

(* Faulty variant: tests the segments after the first one. *)
empty_agenda_p_rest(h, ag) == null(rest_segments(h, ag))

empty_agenda_p(h, ag) == null(segments(h, ag))

(* Faulty variant: the comparison is turned round. *)
belongs_before_p_later(h, time, segs) ==
  null(segs) \/ time > segment_time(h, car(h, segs))

belongs_before_p(h, time, segs) ==
  null(segs) \/ time < segment_time(h, car(h, segs))

make_new_time_segment(h, time, action) ==
  LET h1 == make_queue(h)
      queue == Len(h1)
  IN  make_time_segment(insert_queue(h1, queue, action), time, queue)

RECURSIVE add_to_segments(_, _, _, _)
add_to_segments(h, time, action, segs) ==
  IF segment_time(h, car(h, segs)) = time
    THEN insert_queue(h, segment_queue(h, car(h, segs)), action)
    ELSE LET rest == cdr(h, segs)
         IN  IF belongs_before_p(h, time, rest)
               THEN LET h1 == make_new_time_segment(h, time, action)
                        h2 == cons(h1, Len(h1), cdr(h1, segs))
                    IN  set_cdr(h2, segs, Len(h2))
               ELSE add_to_segments(h, time, action, rest)

(* Faulty variant: a new segment always goes to the head of the list. *)
add_to_agenda_unsorted(h, time, action, ag) ==
  LET segs == segments(h, ag)
      h1 == make_new_time_segment(h, time, action)
      h2 == cons(h1, Len(h1), segs)
  IN  IF null(segs) \/ segment_time(h, car(h, segs)) # time
        THEN set_segments(h2, ag, Len(h2))
        ELSE insert_queue(h, segment_queue(h, car(h, segs)), action)

add_to_agenda(h, time, action, ag) ==
  LET segs == segments(h, ag)
  IN  IF belongs_before_p(h, time, segs)
        THEN LET h1 == make_new_time_segment(h, time, action)
                 h2 == cons(h1, Len(h1), segs)
             IN  set_segments(h2, ag, Len(h2))
        ELSE add_to_segments(h, time, action, segs)

(* remove_first_agenda_item raises where its delete_queue does: on an      *)
(* agenda with no segment, first_segment and segment_queue give None.      *)
remove_first_agenda_item_raises(h, ag) ==
  delete_queue_raises(h, segment_queue(h, first_segment(h, ag)))

(* Faulty variant: once the item is off, the current time is moved on to   *)
(* the time of the segment that is then first.                             *)
remove_first_agenda_item_advances(h, ag) ==
  LET queue == segment_queue(h, first_segment(h, ag))
      h1 == delete_queue(h, queue)
      h2 == IF empty_queue_p(h1, queue)
              THEN set_segments(h1, ag, rest_segments(h1, ag))
              ELSE h1
  IN  IF delete_queue_raises(h, queue)
        THEN h
        ELSE IF empty_agenda_p(h2, ag)
               THEN h2
               ELSE set_current_time(h2, ag, segment_time(h2, first_segment(h2, ag)))

(* Faulty variant: a segment whose queue has become empty is left in place. *)
remove_first_agenda_item_keeps(h, ag) ==
  LET queue == segment_queue(h, first_segment(h, ag))
  IN  delete_queue(h, queue)

(* Faulty variant: the first segment is dropped with what is left in it. *)
remove_first_agenda_item_drops(h, ag) ==
  LET queue == segment_queue(h, first_segment(h, ag))
      h1 == delete_queue(h, queue)
  IN  IF delete_queue_raises(h, queue)
        THEN h
        ELSE set_segments(h1, ag, rest_segments(h1, ag))

remove_first_agenda_item(h, ag) ==
  LET queue == segment_queue(h, first_segment(h, ag))
      h1 == delete_queue(h, queue)
  IN  IF delete_queue_raises(h, queue)
        THEN h
        ELSE IF empty_queue_p(h1, queue)
               THEN set_segments(h1, ag, rest_segments(h1, ag))
               ELSE h1

AgendaEmptyMsg == "Agenda is empty -- FIRST-AGENDA-ITEM"

(* Faulty variant: the item returned is taken off the agenda. *)
first_agenda_item_pops(h, ag) ==
  IF empty_agenda_p(h, ag)
    THEN [heap |-> h, value |-> error(AgendaEmptyMsg)]
    ELSE LET first_seg == first_segment(h, ag)
             h1 == set_current_time(h, ag, segment_time(h, first_seg))
         IN  [heap |-> remove_first_agenda_item(h1, ag),
              value |-> front_queue(h1, segment_queue(h1, first_seg))]

(* Faulty variant: the current time is set before the test for an empty    *)
(* agenda, from a first segment that is None when there is no segment.     *)
first_agenda_item_sets_first(h, ag) ==
  LET first_seg == first_segment(h, ag)
      h1 == set_current_time(h, ag, segment_time(h, first_seg))
  IN  IF empty_agenda_p(h1, ag)
        THEN [heap |-> h1, value |-> error(AgendaEmptyMsg)]
        ELSE [heap |-> h1, value |-> front_queue(h1, segment_queue(h1, first_seg))]

(* Faulty variant: the current time is not set. *)
first_agenda_item_keeps_time(h, ag) ==
  IF empty_agenda_p(h, ag)
    THEN [heap |-> h, value |-> error(AgendaEmptyMsg)]
    ELSE [heap |-> h,
          value |-> front_queue(h, segment_queue(h, first_segment(h, ag)))]

(* first_agenda_item changes the agenda and returns an item: the heap it   *)
(* leaves and the value it returns.                                        *)
first_agenda_item(h, ag) ==
  IF empty_agenda_p(h, ag)
    THEN [heap |-> h, value |-> error(AgendaEmptyMsg)]
    ELSE LET first_seg == first_segment(h, ag)
             h1 == set_current_time(h, ag, segment_time(h, first_seg))
         IN  [heap |-> h1, value |-> front_queue(h1, segment_queue(h1, first_seg))]

(* The state the simulator's procedures read and write, threaded through   *)
(* them: the heap, the_agenda(), the wires, the probes' output, the        *)
(* histories sched, early, observers and invoked, the value the last call  *)
(* returned and the message of the SchemeError in flight ("" when there is *)
(* none, as at the start of every call; ret means nothing while there is   *)
(* one).                                                                   *)
St ==
  [heap |-> heap, agenda |-> agenda, wires |-> wires, log |-> log,
   sched |-> sched, early |-> early, observers |-> observers,
   invoked |-> invoked, ret |-> ret, raised |-> ""]

(* An action is a closure; id tells one closure from another (it is the    *)
(* number of its add_to_agenda call).  wire = NoWire is an action that     *)
(* does nothing to the simulator.                                          *)
NoWire == 0

Lambda(S, output, new_value) ==
  [id |-> Len(S.sched) + 1, wire |-> output, val |-> new_value]

(* Faulty variant: the delay is left out of the time. *)
after_delay_now(S, delay, action) ==
  LET time == current_time(S.heap, S.agenda)
  IN  [S EXCEPT !.heap = add_to_agenda(S.heap, time, action, S.agenda),
                !.sched = Append(@, time),
                !.ret = "None"]

(* Faulty variant: the delay is taken as the time itself. *)
after_delay_absolute(S, delay, action) ==
  [S EXCEPT !.heap = add_to_agenda(S.heap, delay, action, S.agenda),
            !.sched = Append(@, delay),
            !.early = @ \/ delay < current_time(S.heap, S.agenda),
            !.ret = "None"]

after_delay(S, delay, action) ==
  LET time == delay + current_time(S.heap, S.agenda)
  IN  [S EXCEPT !.heap = add_to_agenda(S.heap, time, action, S.agenda),
                !.sched = Append(@, time),
                !.early = @ \/ time < current_time(S.heap, S.agenda),
                !.ret = "None"]

-----------------------------------------------------------------------------
(* circuit/constants.py *)

inverter_delay == 2

and_gate_delay == 3

or_gate_delay == 5

-----------------------------------------------------------------------------
(* circuit/gates.py: the logic functions *)

InvalidSignalMsg == "Invalid signal"

logical_not_raises(s) == s # 0 /\ s # 1

logical_not(s) ==
  IF s = 0 THEN 1 ELSE IF s = 1 THEN 0 ELSE error(InvalidSignalMsg)

(* Python's a & b and a | b on non-negative integers. *)
RECURSIVE BitAnd(_, _)
BitAnd(a, b) ==
  IF a = 0 \/ b = 0
    THEN 0
    ELSE (IF a % 2 = 1 /\ b % 2 = 1 THEN 1 ELSE 0) + 2 * BitAnd(a \div 2, b \div 2)

RECURSIVE BitOr(_, _)
BitOr(a, b) ==
  IF a = 0 /\ b = 0
    THEN 0
    ELSE (IF a % 2 = 1 \/ b % 2 = 1 THEN 1 ELSE 0) + 2 * BitOr(a \div 2, b \div 2)

logical_and(a, b) == BitAnd(a, b)

(* Faulty variant: the sum of the two signals. *)
logical_or_sum(a, b) == a + b

logical_or(a, b) == BitOr(a, b)

-----------------------------------------------------------------------------
(* circuit/wire.py, and the action procedures of gates.py and of probe.    *)
(* A wire is its number in wires; action_procedures is a list that is      *)
(* only ever extended at its head and never mutated, so it is a sequence.  *)

make_wire(S) ==
  [S EXCEPT !.wires = Append(@, [signal_value |-> 0, action_procedures |-> << >>])]

get_signal(S, wire) == S.wires[wire].signal_value

invert_input(S, p) ==
  LET new_value == logical_not(get_signal(S, p.a1))
  IN  IF logical_not_raises(get_signal(S, p.a1))
        THEN [S EXCEPT !.raised = new_value.raised]
        ELSE after_delay(S, inverter_delay, Lambda(S, p.out, new_value))

and_action_procedure(S, p) ==
  LET new_value == logical_and(get_signal(S, p.a1), get_signal(S, p.a2))
  IN  after_delay(S, and_gate_delay, Lambda(S, p.out, new_value))

or_action_procedure(S, p) ==
  LET new_value == logical_or(get_signal(S, p.a1), get_signal(S, p.a2))
  IN  after_delay(S, or_gate_delay, Lambda(S, p.out, new_value))

probe_action(S, p) ==
  [S EXCEPT !.log = Append(@, [name |-> p.name,
                               time |-> current_time(S.heap, S.agenda),
                               value |-> get_signal(S, p.a1)]),
            !.ret = "None"]

(* Calling an action procedure: proc(). *)
call_proc(S, p) ==
  LET S1 == [S EXCEPT !.invoked = Append(@, p)]
  IN  CASE p.kind = "invert_input" -> invert_input(S1, p)
        [] p.kind = "and_action_procedure" -> and_action_procedure(S1, p)
        [] p.kind = "or_action_procedure" -> or_action_procedure(S1, p)
        [] p.kind = "probe_action" -> probe_action(S1, p)

RECURSIVE call_each(_, _)
call_each(S, procedures) ==
  IF procedures = << >>
    THEN [S EXCEPT !.ret = "done"]
    ELSE LET S1 == call_proc(S, Head(procedures))
         IN  IF S1.raised # "" THEN S1 ELSE call_each(S1, Tail(procedures))

(* Faulty variant: the observers are called whatever the new value. *)
set_my_signal_always(S, wire, new_value) ==
  call_each([S EXCEPT !.wires[wire].signal_value = new_value],
            S.wires[wire].action_procedures)

set_my_signal(S, wire, new_value) ==
  IF S.wires[wire].signal_value # new_value
    THEN call_each([S EXCEPT !.wires[wire].signal_value = new_value],
                   S.wires[wire].action_procedures)
    ELSE [S EXCEPT !.ret = "done"]

(* Faulty variant: proc is run and not kept in action_procedures. *)
accept_action_procedure_forgets(S, wire, proc) == call_proc(S, proc)

(* Faulty variant: proc is put at the end of action_procedures. *)
accept_action_procedure_appends(S, wire, proc) ==
  call_proc([S EXCEPT !.wires[wire].action_procedures = Append(@, proc)], proc)

(* Faulty variant (exercise 3.31): proc is registered and not run. *)
accept_action_procedure_lazy(S, wire, proc) ==
  [S EXCEPT !.wires[wire].action_procedures = << proc >> \o @]

accept_action_procedure(S, wire, proc) ==
  call_proc([S EXCEPT !.wires[wire].action_procedures = << proc >> \o @], proc)

set_signal(S, wire, new_value) == set_my_signal(S, wire, new_value)

add_action(S, wire, action_procedure) ==
  accept_action_procedure(
    [S EXCEPT !.observers = Append(@, [wire |-> wire, proc |-> action_procedure])],
    wire, action_procedure)

-----------------------------------------------------------------------------
(* circuit/gates.py: the function boxes; circuit/simulation: probe *)

Proc(kind, a1, a2, out, name) ==
  [kind |-> kind, a1 |-> a1, a2 |-> a2, out |-> out, name |-> name]

inverter(S, input, output) ==
  LET S1 == add_action(S, input, Proc("invert_input", input, input, output, ""))
  IN  IF S1.raised # "" THEN S1 ELSE [S1 EXCEPT !.ret = "ok"]

and_gate(S, a1, a2, output) ==
  LET proc == Proc("and_action_procedure", a1, a2, output, "")
  IN  [add_action(add_action(S, a1, proc), a2, proc) EXCEPT !.ret = "ok"]

or_gate(S, a1, a2, output) ==
  LET proc == Proc("or_action_procedure", a1, a2, output, "")
  IN  [add_action(add_action(S, a1, proc), a2, proc) EXCEPT !.ret = "ok"]

half_adder(S, a, b, s, c) ==
  LET S1 == make_wire(S)
      d == Len(S1.wires)
      S2 == make_wire(S1)
      e == Len(S2.wires)
      S3 == or_gate(S2, a, b, d)
      S4 == and_gate(S3, a, b, c)
      S5 == inverter(S4, c, e)
  IN  IF S5.raised # "" THEN S5 ELSE [and_gate(S5, d, e, s) EXCEPT !.ret = "ok"]

(* Faulty variant: the two carries are joined by an and-gate. *)
full_adder_and_carry(S, a, b, c_in, sum, c_out) ==
  LET s == Len(S.wires) + 1
      c1 == Len(S.wires) + 2
      c2 == Len(S.wires) + 3
      first_half(S3) == half_adder(S3, b, c_in, s, c1)
      second_half(S4) == IF S4.raised # "" THEN S4 ELSE half_adder(S4, a, s, sum, c2)
      carry_gate(S5) ==
        IF S5.raised # "" THEN S5 ELSE [and_gate(S5, c1, c2, c_out) EXCEPT !.ret = "ok"]
  IN  CHOOSE S6 \in
        { carry_gate(S5) : S5 \in
            { second_half(S4) : S4 \in
                { first_half(S3) : S3 \in {make_wire(make_wire(make_wire(S)))} } } } : TRUE

(* s, c1 and c2 are the three wires full_adder makes, in this order.  The  *)
(* three calls run one after another, each on the state the one before it  *)
(* has left: S3, S4 and S5 are these states, and S6 the one returned.      *)
full_adder(S, a, b, c_in, sum, c_out) ==
  LET s == Len(S.wires) + 1
      c1 == Len(S.wires) + 2
      c2 == Len(S.wires) + 3
      first_half(S3) == half_adder(S3, b, c_in, s, c1)
      second_half(S4) == IF S4.raised # "" THEN S4 ELSE half_adder(S4, a, s, sum, c2)
      carry_gate(S5) ==
        IF S5.raised # "" THEN S5 ELSE [or_gate(S5, c1, c2, c_out) EXCEPT !.ret = "ok"]
  IN  CHOOSE S6 \in
        { carry_gate(S5) : S5 \in
            { second_half(S4) : S4 \in
                { first_half(S3) : S3 \in {make_wire(make_wire(make_wire(S)))} } } } : TRUE

probe(S, name, wire) ==
  add_action(S, wire, Proc("probe_action", wire, wire, wire, name))

(* first_item(): the closures the gates make call set_signal. *)
call_action(S, action) ==
  IF action.wire = NoWire
    THEN [S EXCEPT !.ret = "None"]
    ELSE set_signal(S, action.wire, action.val)

-----------------------------------------------------------------------------
(* SpecQueue: a driver that calls the queue operations in any order. *)

InitQueue ==
  /\ heap = make_queue(<< >>)
  /\ q = 1
  /\ qin = << >>
  /\ qout = << >>
  /\ agenda = NULL
  /\ wires = << >>
  /\ log = << >>
  /\ sched = << >>
  /\ executed = << >>
  /\ removed = << >>
  /\ early = FALSE
  /\ inputs = { }
  /\ calls = << >>
  /\ observers = << >>
  /\ invoked = << >>
  /\ pc = "idle"
  /\ ret = "none"
  /\ raised = ""

InsertQueue(item) ==
  /\ Len(qin) < MaxInserts
  /\ heap' = insert_queue(heap, q, item)
  /\ qin' = Append(qin, item)
  /\ ret' = q
  /\ raised' = ""
  /\ UNCHANGED << q, qout, agenda, wires, log, sched, executed, removed,
                  early, inputs, calls, observers, invoked, pc >>

DeleteQueue ==
  /\ IF delete_queue_raises(heap, q)
       THEN /\ raised' = DeleteEmptyMsg
            /\ ret' = "none"
            /\ heap' = delete_queue(heap, q)
            /\ UNCHANGED qout
       ELSE /\ heap' = delete_queue(heap, q)
            /\ qout' = Append(qout, front_queue(heap, q))
            /\ ret' = q
            /\ raised' = ""
  /\ UNCHANGED << q, qin, agenda, wires, log, sched, executed, removed,
                  early, inputs, calls, observers, invoked, pc >>

FrontQueue ==
  /\ UNCHANGED << heap, q, qin, qout, agenda, wires, log, sched, executed,
                  removed, early, inputs, calls, observers, invoked, pc >>
  /\ IF empty_queue_p(heap, q)
       THEN /\ raised' = front_queue(heap, q).raised
            /\ ret' = "none"
       ELSE /\ raised' = ""
            /\ ret' = front_queue(heap, q)

NextQueue ==
  \/ \E item \in Items : InsertQueue(item)
  \/ DeleteQueue
  \/ FrontQueue

SpecQueue == InitQueue /\ [][NextQueue]_vars

-----------------------------------------------------------------------------
(* The driver of a simulation: the calls a program such as                 *)
(* circuit/simulation/__main__.py makes, one at a time.                    *)

Install(S) ==
  /\ heap' = S.heap
  /\ wires' = S.wires
  /\ log' = S.log
  /\ sched' = S.sched
  /\ early' = S.early
  /\ observers' = S.observers
  /\ invoked' = S.invoked
  /\ ret' = S.ret

(* A set_signal call as the history keeps it: the wire, the value given,   *)
(* the signal before the call, the current time, whether the agenda was    *)
(* empty, and how much the probes had displayed.                           *)
Call(wire, value) ==
  [wire |-> wire, value |-> value, old |-> get_signal(St, wire),
   time |-> current_time(heap, agenda), settled |-> empty_agenda_p(heap, agenda),
   at |-> Len(log)]

SetSignal(wire, new_value) ==
  /\ pc = "idle"
  /\ Len(calls) < MaxSets
  /\ wire \in inputs
  /\ Install(set_signal(St, wire, new_value))
  /\ calls' = Append(calls, Call(wire, new_value))
  /\ raised' = set_signal(St, wire, new_value).raised
  /\ UNCHANGED << q, qin, qout, agenda, executed, removed, inputs, pc >>

(* propagate(): the call, then one action for each turn of its loop.  A    *)
(* SchemeError raised by first_item() ends propagate with the item still   *)
(* on the agenda.                                                          *)
Propagate ==
  /\ pc = "idle"
  /\ pc' = "propagate"
  /\ raised' = ""
  /\ UNCHANGED << heap, q, qin, qout, agenda, wires, log, sched, executed,
                  removed, early, inputs, calls, observers, invoked, ret >>

PropagateReturn ==
  /\ pc = "propagate"
  /\ empty_agenda_p(heap, agenda)
  /\ pc' = "idle"
  /\ ret' = "done"
  /\ UNCHANGED << heap, q, qin, qout, agenda, wires, log, sched, executed,
                  removed, early, inputs, calls, observers, invoked, raised >>

PropagateStep ==
  /\ pc = "propagate"
  /\ ~empty_agenda_p(heap, agenda)
  /\ LET first == first_agenda_item(heap, agenda)
         first_item == first.value
         S1 == call_action([St EXCEPT !.heap = first.heap], first_item)
         queue == segment_queue(S1.heap, first_segment(S1.heap, agenda))
     IN  IF S1.raised # ""
           THEN /\ Install(S1)
                /\ raised' = S1.raised
                /\ pc' = "idle"
                /\ UNCHANGED << executed, removed >>
           ELSE /\ Install([S1 EXCEPT !.heap = remove_first_agenda_item(S1.heap, agenda)])
                /\ executed' = Append(executed, [id |-> first_item.id,
                                                 time |-> current_time(first.heap, agenda)])
                /\ removed' = Append(removed, front_queue(S1.heap, queue).id)
                /\ UNCHANGED << pc, raised >>
  /\ UNCHANGED << q, qin, qout, agenda, inputs, calls >>

-----------------------------------------------------------------------------
(* SpecAgenda: a driver that calls the agenda operations in any order,     *)
(* with actions that do nothing, and runs propagate.                       *)

EmptyState ==
  [heap |-> make_agenda(<< >>), agenda |-> 1, wires |-> << >>, log |-> << >>,
   sched |-> << >>, early |-> FALSE, observers |-> << >>, invoked |-> << >>,
   ret |-> "None", raised |-> ""]

InitOf(S, ins) ==
  /\ heap = S.heap
  /\ agenda = S.agenda
  /\ wires = S.wires
  /\ log = S.log
  /\ sched = S.sched
  /\ early = S.early
  /\ observers = S.observers
  /\ invoked = S.invoked
  /\ ret = S.ret
  /\ inputs = ins
  /\ q = NULL
  /\ qin = << >>
  /\ qout = << >>
  /\ executed = << >>
  /\ removed = << >>
  /\ calls = << >>
  /\ pc = "idle"
  /\ raised = ""

InitAgenda == InitOf(EmptyState, { })

AddToAgenda(time) ==
  /\ pc = "idle"
  /\ Len(sched) < MaxAdds
  /\ heap' = add_to_agenda(heap, time, Lambda(St, NoWire, 0), agenda)
  /\ sched' = Append(sched, time)
  /\ early' = (early \/ time < current_time(heap, agenda))
  /\ ret' = "None"
  /\ raised' = ""
  /\ UNCHANGED << q, qin, qout, agenda, wires, log, executed, removed, inputs,
                  calls, observers, invoked, pc >>

FirstAgendaItem ==
  /\ pc = "idle"
  /\ IF empty_agenda_p(heap, agenda)
       THEN /\ heap' = first_agenda_item(heap, agenda).heap
            /\ raised' = first_agenda_item(heap, agenda).value.raised
            /\ ret' = "None"
       ELSE /\ heap' = first_agenda_item(heap, agenda).heap
            /\ ret' = first_agenda_item(heap, agenda).value
            /\ raised' = ""
  /\ UNCHANGED << q, qin, qout, agenda, wires, log, sched, executed, removed,
                  early, inputs, calls, observers, invoked, pc >>

RemoveFirstAgendaItem ==
  /\ pc = "idle"
  /\ IF remove_first_agenda_item_raises(heap, agenda)
       THEN /\ raised' = DeleteEmptyMsg
            /\ UNCHANGED << heap, removed >>
       ELSE /\ heap' = remove_first_agenda_item(heap, agenda)
            /\ removed' = Append(removed,
                 front_queue(heap, segment_queue(heap, first_segment(heap, agenda))).id)
            /\ raised' = ""
  /\ ret' = "None"
  /\ UNCHANGED << q, qin, qout, agenda, wires, log, sched, executed, early,
                  inputs, calls, observers, invoked, pc >>

NextAgenda ==
  \/ \E time \in 0 .. MaxTime : AddToAgenda(time)
  \/ FirstAgendaItem
  \/ RemoveFirstAgendaItem
  \/ Propagate
  \/ PropagateStep
  \/ PropagateReturn

SpecAgenda == InitAgenda /\ [][NextAgenda]_vars

-----------------------------------------------------------------------------
(* SpecDelay: a driver that calls after_delay with actions that do         *)
(* nothing, moves the current time with first_agenda_item, takes actions   *)
(* off with remove_first_agenda_item and runs propagate.  calls keeps the  *)
(* after_delay calls: the delay, the current time at the call and the      *)
(* action.                                                                 *)

AfterDelay(delay) ==
  /\ pc = "idle"
  /\ Len(sched) < MaxAdds
  /\ Install(after_delay(St, delay, Lambda(St, NoWire, 0)))
  /\ calls' = Append(calls, [delay |-> delay,
                             time |-> current_time(heap, agenda),
                             action |-> Lambda(St, NoWire, 0)])
  /\ raised' = ""
  /\ UNCHANGED << q, qin, qout, agenda, executed, removed, inputs, pc >>

NextDelay ==
  \/ \E delay \in 0 .. MaxDelay : AfterDelay(delay)
  \/ FirstAgendaItem
  \/ RemoveFirstAgendaItem
  \/ Propagate
  \/ PropagateStep
  \/ PropagateReturn

SpecDelay == InitAgenda /\ [][NextDelay]_vars

-----------------------------------------------------------------------------
(* SpecHalfAdder: circuit/simulation/__main__.py up to half_adder(...),    *)
(* then a driver that sets the two inputs and runs propagate in any order. *)

input_1 == 1

input_2 == 2

sum == 3

carry == 4

Demonstration ==
  LET S4 == make_wire(make_wire(make_wire(make_wire(EmptyState))))
      S5 == probe(S4, "sum", sum)
      S6 == probe(S5, "carry", carry)
  IN  half_adder(S6, input_1, input_2, sum, carry)

InitHalfAdder == InitOf(Demonstration, {input_1, input_2})

NextCircuit ==
  \/ \E wire \in inputs, new_value \in {0, 1} : SetSignal(wire, new_value)
  \/ Propagate
  \/ PropagateStep
  \/ PropagateReturn

SpecHalfAdder == InitHalfAdder /\ [][NextCircuit]_vars

(* A propagate that has been called keeps running: weak fairness of its    *)
(* loop's turn and of its return.  WF_vars(PropagateStep) is written out,  *)
(* ENABLED <<PropagateStep>>_vars being StepEnabled: a turn is possible    *)
(* exactly when the driver is in propagate and the agenda is not empty,    *)
(* and it always changes the state.                                        *)
StepEnabled == pc = "propagate" /\ ~empty_agenda_p(heap, agenda)

FairHalfAdder ==
  /\ SpecHalfAdder
  /\ ([]<>(~StepEnabled) \/ []<><<PropagateStep>>_vars)
  /\ WF_vars(PropagateReturn)

-----------------------------------------------------------------------------
(* SpecAnySignal: the half-adder of the demonstration with a driver that   *)
(* gives set_signal any of the values 0, 1 and 2: set_signal takes any     *)
(* value.                                                                  *)

Values == {0, 1, 2}

NextAnySignal ==
  \/ \E wire \in inputs, new_value \in Values : SetSignal(wire, new_value)
  \/ Propagate
  \/ PropagateStep
  \/ PropagateReturn

SpecAnySignal == InitHalfAdder /\ [][NextAnySignal]_vars

-----------------------------------------------------------------------------
(* SpecLogic: a driver that calls the logic functions of gates.py on any   *)
(* small non-negative integers.  calls keeps what was called with what.    *)

InitLogic == InitOf(EmptyState, { })

LogicCall(fn, a, b) == [fn |-> fn, a |-> a, b |-> b]

LogicalNot(s) ==
  /\ Len(calls) < MaxLogicCalls
  /\ calls' = Append(calls, LogicCall("logical_not", s, s))
  /\ IF logical_not_raises(s)
       THEN /\ raised' = logical_not(s).raised
            /\ ret' = "None"
       ELSE /\ ret' = logical_not(s)
            /\ raised' = ""
  /\ UNCHANGED << heap, q, qin, qout, agenda, wires, log, sched, executed,
                  removed, early, inputs, observers, invoked, pc >>

LogicalAnd(a, b) ==
  /\ Len(calls) < MaxLogicCalls
  /\ calls' = Append(calls, LogicCall("logical_and", a, b))
  /\ ret' = logical_and(a, b)
  /\ raised' = ""
  /\ UNCHANGED << heap, q, qin, qout, agenda, wires, log, sched, executed,
                  removed, early, inputs, observers, invoked, pc >>

LogicalOr(a, b) ==
  /\ Len(calls) < MaxLogicCalls
  /\ calls' = Append(calls, LogicCall("logical_or", a, b))
  /\ ret' = logical_or(a, b)
  /\ raised' = ""
  /\ UNCHANGED << heap, q, qin, qout, agenda, wires, log, sched, executed,
                  removed, early, inputs, observers, invoked, pc >>

NextLogic ==
  \/ \E s \in 0 .. MaxSignal : LogicalNot(s)
  \/ \E a, b \in 0 .. MaxSignal : LogicalAnd(a, b)
  \/ \E a, b \in 0 .. MaxSignal : LogicalOr(a, b)

SpecLogic == InitLogic /\ [][NextLogic]_vars

-----------------------------------------------------------------------------
(* SpecInverter: a lone inverter(input, output) with a probe on its output. *)

LoneInverter ==
  LET S2 == make_wire(make_wire(EmptyState))
      S3 == probe(S2, "output", 2)
  IN  inverter(S3, 1, 2)

InitInverter == InitOf(LoneInverter, {1})

SpecInverter == InitInverter /\ [][NextCircuit]_vars

-----------------------------------------------------------------------------
(* SpecAndGate: a lone and_gate(a1, a2, output) on wires 1, 2 and 3, with  *)
(* a probe on its output.                                                  *)

LoneAndGate ==
  LET S3 == make_wire(make_wire(make_wire(EmptyState)))
      S4 == probe(S3, "output", 3)
  IN  and_gate(S4, 1, 2, 3)

InitAndGate == InitOf(LoneAndGate, {1, 2})

SpecAndGate == InitAndGate /\ [][NextCircuit]_vars

-----------------------------------------------------------------------------
(* SpecWire: two wires with nothing attached, and a driver that attaches   *)
(* probes to either and inverters from the first to the second, changes    *)
(* the first (from 0 to 1 or from 1 to 0) and runs propagate, in any       *)
(* order.                                                                  *)

TwoWires == make_wire(make_wire(EmptyState))

InitWire == InitOf(TwoWires, {1})

(* The name given to the next probe: one name per add_action call. *)
ProbeName == "p" \o ToString(Len(observers) + 1)

AddProbe(wire) ==
  /\ pc = "idle"
  /\ Len(observers) < MaxObservers
  /\ Install(probe(St, ProbeName, wire))
  /\ raised' = probe(St, ProbeName, wire).raised
  /\ UNCHANGED << q, qin, qout, agenda, executed, removed, inputs, calls, pc >>

AddInverter(input, output) ==
  /\ pc = "idle"
  /\ Len(observers) < MaxObservers
  /\ Install(inverter(St, input, output))
  /\ raised' = inverter(St, input, output).raised
  /\ UNCHANGED << q, qin, qout, agenda, executed, removed, inputs, calls, pc >>

NextWire ==
  \/ \E wire \in 1 .. Len(wires) : AddProbe(wire)
  \/ AddInverter(1, 2)
  \/ \E wire \in inputs :
       Len(calls) < MaxWireSets /\ SetSignal(wire, 1 - get_signal(St, wire))
  \/ Propagate
  \/ PropagateStep
  \/ PropagateReturn

SpecWire == InitWire /\ [][NextWire]_vars

-----------------------------------------------------------------------------
(* SpecOscillator: one wire, and a driver that attaches inverters whose    *)
(* output is their input to it, sets it and runs propagate, in any order.  *)
(* The loop of propagate is followed for MaxSteps turns.                   *)

OneWire == make_wire(EmptyState)

InitOscillator == InitOf(OneWire, {1})

NextOscillator ==
  \/ AddInverter(1, 1)
  \/ \E new_value \in {0, 1} : SetSignal(1, new_value)
  \/ Propagate
  \/ Len(executed) < MaxSteps /\ PropagateStep
  \/ PropagateReturn

SpecOscillator == InitOscillator /\ [][NextOscillator]_vars

-----------------------------------------------------------------------------
(* SpecFullAdder: full_adder(a, b, c_in, sum, c_out) on wires 1 to 5, and  *)
(* a driver that sets the three inputs and runs propagate in any order.    *)

LoneFullAdder ==
  LET S5 == make_wire(make_wire(make_wire(make_wire(make_wire(EmptyState)))))
  IN  full_adder(S5, 1, 2, 3, 4, 5)

InitFullAdder == InitOf(LoneFullAdder, {1, 2, 3})

SpecFullAdder == InitFullAdder /\ [][NextCircuit]_vars

-----------------------------------------------------------------------------
(* C4: front_queue returns the earliest inserted item that has not been    *)
(* deleted (the queue is empty exactly when there is none), and the items  *)
(* taken off by front_queue/delete_queue come out in insertion order: n    *)
(* inserts followed by n deletes yield the n items as they were inserted.  *)
C4_QueueFifo ==
  /\ empty_queue_p(heap, q) <=> Len(qout) = Len(qin)
  /\ ~empty_queue_p(heap, q) => front_queue(heap, q) = qin[Len(qout) + 1]
  /\ Len(qout) <= Len(qin)
  /\ qout = SubSeq(qin, 1, Len(qout))

(* Three inserts with no delete in between (the pairs are still linked     *)
(* from the first one), then three deletes.                                *)
C4_Witness ==
  /\ qin = << "a", "b", "c" >>
  /\ qout = qin
  /\ chain(heap, 2) = qin
  /\ empty_queue_p(heap, q)
-----------------------------------------------------------------------------
(* Reading the histories. *)

Range(seq) == { seq[k] : k \in 1 .. Len(seq) }

Pos(seq, x) == CHOOSE k \in 1 .. Len(seq) : seq[k] = x

ExecutedIds == [k \in 1 .. Len(executed) |-> executed[k].id]

(* The actions added to the agenda and not yet taken off it. *)
Pending == { i \in 1 .. Len(sched) : i \notin Range(removed) }

-----------------------------------------------------------------------------
(* C2: whenever actions are in the agenda, it is not empty and             *)
(* first_agenda_item returns one of them whose scheduled time is the       *)
(* minimum of the scheduled times of all of them.                          *)
C2_FirstIsMinimum ==
  /\ Pending # { } => ~empty_agenda_p(heap, agenda)
  /\ ~empty_agenda_p(heap, agenda) =>
       LET first_item == first_agenda_item(heap, agenda).value
       IN  /\ first_item.id \in Pending
           /\ \A i \in Pending : sched[first_item.id] <= sched[i]

(* Three actions added latest time first, the earliest one on top after    *)
(* the first has been removed.                                             *)
C2_Witness ==
  /\ sched = << 1, 2, 0 >>
  /\ removed = << 3 >>
  /\ first_agenda_item(heap, agenda).value.id = 1

(* C3: of two actions added for the same time, the one added first is the  *)
(* one first_agenda_item returns and remove_first_agenda_item takes off    *)
(* first, and propagate executes it before the other, whatever was added   *)
(* for other times in between.                                             *)
C3_SameTimeFifo ==
  \A i, j \in 1 .. Len(sched) :
    (i < j /\ sched[i] = sched[j]) =>
      /\ j \in Range(removed) =>
           (i \in Range(removed) /\ Pos(removed, i) < Pos(removed, j))
      /\ (i \in Range(ExecutedIds) /\ j \in Range(ExecutedIds)) =>
           Pos(ExecutedIds, i) < Pos(ExecutedIds, j)
      /\ (i \in Pending /\ ~empty_agenda_p(heap, agenda)) =>
           first_agenda_item(heap, agenda).value.id # j

(* Actions 1 and 3 are for time 1, action 2 between them for time 2;       *)
(* propagate has run all three.                                            *)
C3_Witness ==
  /\ sched = << 1, 2, 1 >>
  /\ ExecutedIds = << 1, 3, 2 >>
  /\ removed = ExecutedIds

(* C5 as stated: over any calls of add_to_agenda, first_agenda_item and    *)
(* remove_first_agenda_item, current_time never decreases.                 *)
C5_Original ==
  [][current_time(heap', agenda') >= current_time(heap, agenda)]_vars

(* C5 amended: as long as no add_to_agenda call was given a time before    *)
(* the current time of its agenda, current_time never decreases.           *)
C5_TimeMonotone ==
  [][~early' => current_time(heap', agenda') >= current_time(heap, agenda)]_vars

(* Two extractions at growing times, the later actions added after the     *)
(* first extraction or before it, none of them for a time in the past.     *)
C5_Witness ==
  /\ ~early
  /\ sched = << 1, 2, 2 >>
  /\ removed = << 1, 2 >>
  /\ current_time(heap, agenda) = 2
-----------------------------------------------------------------------------
(* The demonstration's calls and what its probes display. *)

IsPrefix(s, t) == Len(s) <= Len(t) /\ s = SubSeq(t, 1, Len(s))

Line(name, time, value) == [name |-> name, time |-> time, value |-> value]

(* The agenda has been run to completion and the driver is not in propagate. *)
Settled == pc = "idle" /\ empty_agenda_p(heap, agenda)

(* set_signal(input_1, 1) on the circuit as built, propagate() to          *)
(* completion, then set_signal(input_2, 1).                                *)
FirstCall ==
  /\ Len(calls) >= 1
  /\ calls[1].wire = input_1 /\ calls[1].value = 1 /\ calls[1].time = 0

SecondCall ==
  /\ Len(calls) = 2
  /\ calls[2].wire = input_2 /\ calls[2].value = 1 /\ calls[2].settled

Displayed0 == << Line("sum", 0, 0), Line("carry", 0, 0) >>

Displayed1 == Displayed0 \o << Line("sum", 8, 1) >>

Displayed2 == Displayed1 \o << Line("carry", 11, 1), Line("sum", 16, 0) >>
(* C1: in the demonstration (delays 2, 3, 5, agenda at time 0, all wires   *)
(* 0), set_signal(input_1, 1) and propagate() change sum to 1 at time 8    *)
(* and leave carry alone; then, at time 8, set_signal(input_2, 1) and      *)
(* propagate() change carry to 1 at time 11 and sum to 0 at time 16.  The  *)
(* probes display every change, so sum and carry change at no other time.  *)
C1_Demonstration ==
  /\ Len(calls) = 0 => log = Displayed0
  /\ (FirstCall /\ Len(calls) = 1) =>
       /\ IsPrefix(Displayed0, log) /\ IsPrefix(log, Displayed1)
       /\ Settled => (log = Displayed1 /\ current_time(heap, agenda) = 8)
  /\ (FirstCall /\ SecondCall) =>
       /\ calls[2].time = 8
       /\ IsPrefix(Displayed1, log) /\ IsPrefix(log, Displayed2)
       /\ Settled => (log = Displayed2 /\ current_time(heap, agenda) = 16)

C1_Witness ==
  /\ FirstCall /\ SecondCall /\ Settled
  /\ log = Displayed2
  /\ get_signal(St, sum) = 0 /\ get_signal(St, carry) = 1

-----------------------------------------------------------------------------
(* The half-adder's propagate. *)

AllExecuted == Range(ExecutedIds) = 1 .. Len(sched)

(* C6: on the half-adder, after any set_signal calls on its inputs, a      *)
(* propagate that has been called returns; when it returns it returns      *)
(* "done" and the agenda has no segment and no action left.                *)
C6_PropagateTerminates ==
  /\ (pc = "propagate") ~> (pc = "idle")
  /\ [][(pc = "propagate" /\ pc' = "idle") =>
          (segments(heap', agenda') = NULL /\ Pending' = { } /\ ret' = "done")]_vars

(* propagate has returned after set_signal calls on both inputs, having    *)
(* run every action.                                                       *)
C6_Witness ==
  /\ Settled /\ ret = "done"
  /\ Len(calls) = MaxSets
  /\ Len(executed) > 10 /\ AllExecuted

(* C7: while propagate runs every action added to the agenda comes to be   *)
(* executed, none is dropped, and each is executed once, when the current  *)
(* time is the time it was scheduled for.                                  *)
C7_EveryActionExecuted ==
  /\ (pc = "propagate") ~> AllExecuted
  /\ [](\A k \in 1 .. Len(executed) :
          /\ executed[k].time = sched[executed[k].id]
          /\ \A l \in 1 .. Len(executed) : executed[l].id = executed[k].id => l = k)

(* Inside propagate, an action that an executed action scheduled has been  *)
(* executed in its turn, at a later time.                                  *)
C7_Witness ==
  /\ pc = "propagate"
  /\ Len(calls) >= 1
  /\ \E k \in 1 .. Len(executed) :
       /\ executed[k].id > 10
       /\ executed[k].time = 8

(* C8: for any set_signal calls on a and b with values 0 and 1, once       *)
(* propagate has run to completion, sum = a XOR b and carry = a AND b for  *)
(* the values a and b then have.                                           *)
C8_HalfAdderSettles ==
  Settled =>
    LET a == get_signal(St, input_1)
        b == get_signal(St, input_2)
    IN  /\ get_signal(St, sum) = (a + b) % 2
        /\ get_signal(St, carry) = a * b

(* Settled with a = 1 and b = 0 after three calls, the last of them made   *)
(* with the agenda run to completion.                                      *)
C8_Witness ==
  /\ Settled
  /\ Len(calls) = 3 /\ calls[3].settled /\ calls[3].old # calls[3].value
  /\ get_signal(St, input_1) = 1 /\ get_signal(St, input_2) = 0
  /\ get_signal(St, sum) = 1 /\ get_signal(St, carry) = 0

-----------------------------------------------------------------------------
(* The lone inverter: wire 1 is its input, wire 2 its output. *)

(* The probe's lines displayed after the k-th call. *)
LinesAfter(k) == { n \in 1 .. Len(log) : n > calls[k].at }

Rising(k) == calls[k].old = 0 /\ calls[k].value = 1

(* C9: with inverter delay 2, when set_signal changes the input from 0 to  *)
(* 1 at current time T, the output changes to 0 when the current time is   *)
(* T + 2 (it has, once propagate has run to completion) and at no time     *)
(* before T + 2.                                                           *)
C9_InverterTiming ==
  \A k \in 1 .. Len(calls) :
    Rising(k) =>
      /\ \A n \in LinesAfter(k) : log[n].value = 0 => log[n].time >= calls[k].time + 2
      /\ Settled =>
           \E n \in LinesAfter(k) : log[n] = Line("output", calls[k].time + 2, 0)

(* The input is raised at time 2, with the output settled at 1, and the    *)
(* output falls at time 4.                                                 *)
C9_Witness ==
  /\ Settled
  /\ \E k \in 1 .. Len(calls) :
       /\ Rising(k) /\ calls[k].settled /\ calls[k].time = 2
       /\ \E n \in LinesAfter(k) : log[n] = Line("output", 4, 0)

-----------------------------------------------------------------------------
(* C10: set_signal(wire, v) with v the wire's signal invokes no observer   *)
(* (nothing is displayed, nothing is scheduled), adds nothing to the       *)
(* agenda, leaves the signals and the observer lists as they are and       *)
(* returns "done".                                                         *)
C10_SetSignalSameValue ==
  [][(Len(calls') = Len(calls) + 1
        /\ calls'[Len(calls')].old = calls'[Len(calls')].value) =>
       (/\ heap' = heap
        /\ wires' = wires
        /\ log' = log
        /\ sched' = sched
        /\ ret' = "done")]_vars

(* The last call gave input_1 the value it had, 1, and input_1 has its two *)
(* observers.                                                              *)
C10_Witness ==
  /\ Len(calls) >= 2
  /\ calls[Len(calls)].wire = input_1
  /\ calls[Len(calls)].old = 1 /\ calls[Len(calls)].value = 1
  /\ Len(wires[input_1].action_procedures) = 2

-----------------------------------------------------------------------------
(* Reading the histories observers and invoked. *)

(* The action procedures called in the step. *)
NewlyInvoked == SubSeq(invoked', Len(invoked) + 1, Len(invoked'))

(* The step is an add_action call: the call is the last of observers'. *)
Registers == Len(observers') = Len(observers) + 1

Registered == observers'[Len(observers')]

(* The step changes the signal of the wire. *)
Changes(wire) == wires'[wire].signal_value # wires[wire].signal_value

RECURSIVE Reverse(_)
Reverse(seq) ==
  IF seq = << >> THEN << >> ELSE Append(Reverse(Tail(seq)), Head(seq))

(* The procedures given to add_action for the wire, in call order. *)
RECURSIVE RegisteredOn(_, _)
RegisteredOn(obs, wire) ==
  IF obs = << >>
    THEN << >>
    ELSE (IF Head(obs).wire = wire THEN << Head(obs).proc >> ELSE << >>)
           \o RegisteredOn(Tail(obs), wire)

Times(seq, x) == Cardinality({ n \in 1 .. Len(seq) : seq[n] = x })

(* C11: an add_action(wire, proc) call calls proc once and nothing else,   *)
(* whatever the wire's signal and whether or not it has ever changed, and  *)
(* afterwards every step that changes the wire's signal calls proc again,  *)
(* as many times as it was registered on the wire.                         *)
C11_AddActionInvokes ==
  [][/\ Registers => NewlyInvoked = << Registered.proc >>
     /\ \A wire \in 1 .. Len(wires) :
          Changes(wire) =>
            \A k \in 1 .. Len(observers) :
              observers[k].wire = wire =>
                Times(NewlyInvoked, observers[k].proc)
                  = Times(RegisteredOn(observers, wire), observers[k].proc)]_vars

(* p1 was attached to wire 1 before any set_signal, p2 after wire 1 had    *)
(* changed; each was called at once, and the second change called both.    *)
C11_Witness ==
  /\ Len(calls) = 2 /\ calls[1].old # calls[1].value /\ calls[2].old # calls[2].value
  /\ Len(invoked) = 5
  /\ [n \in 1 .. 5 |-> invoked[n].name] = << "p1", "p1", "p2", "p2", "p1" >>
  /\ [n \in 1 .. 5 |-> log[n].value] = << 0, 1, 1, 0, 0 >>

(* C12: a step that changes a wire's signal (a set_signal call by the      *)
(* driver, or by an action under propagate) calls the procedures           *)
(* registered on the wire, each once for each registration, the one        *)
(* registered last first and the one registered first last, and calls      *)
(* nothing else.                                                           *)
C12_ReverseRegistrationOrder ==
  [][\A wire \in 1 .. Len(wires) :
       Changes(wire) => NewlyInvoked = Reverse(RegisteredOn(observers, wire))]_vars

(* A probe, an inverter and another probe attached to wire 1 in this       *)
(* order; the change of wire 1 has called the three, the last one first.   *)
C12_Witness ==
  /\ Len(observers) = 3 /\ Len(calls) = 1 /\ calls[1].old # calls[1].value
  /\ [k \in 1 .. 3 |-> observers[k].proc.kind]
       = << "probe_action", "invert_input", "probe_action" >>
  /\ [k \in 1 .. 3 |-> observers[k].wire] = << 1, 1, 1 >>
  /\ SubSeq(invoked, 4, 6) = << observers[3].proc, observers[2].proc, observers[1].proc >>

-----------------------------------------------------------------------------
(* C13 as stated: the signal of every wire is 0 or 1 in every state. *)
C13_Original ==
  \A wire \in 1 .. Len(wires) : get_signal(St, wire) \in {0, 1}

(* As long as every value given to set_signal by the driver is 0 or 1. *)
BinaryCalls == \A k \in 1 .. Len(calls) : calls[k].value \in {0, 1}

(* C13 amended: on the half-adder (wires start at 0; an or-gate, two       *)
(* and-gates and an inverter write the others), as long as the driver has  *)
(* given set_signal no value but 0 and 1, the signal of every wire is 0    *)
(* or 1.                                                                   *)
C13_BinarySignals ==
  BinaryCalls => \A wire \in 1 .. Len(wires) : get_signal(St, wire) \in {0, 1}

(* Both inputs set to 1 and propagated: the or-gate's output (wire 5) and  *)
(* the carry have been written with 1, the inverter's output (wire 6) and  *)
(* the sum with 0.                                                         *)
C13_Witness ==
  /\ BinaryCalls /\ Settled
  /\ [wire \in 1 .. 6 |-> get_signal(St, wire)] = << 1, 1, 0, 1, 1, 0 >>
  /\ Len(log) >= 5

-----------------------------------------------------------------------------
(* C14: a call of logical_not, logical_and or logical_or with an argument  *)
(* that is neither 0 nor 1 raises the SchemeError "Invalid signal".        *)
C14_InvalidSignalRaises ==
  \A k \in 1 .. Len(calls) :
    (k = Len(calls) /\ (calls[k].a \notin {0, 1} \/ calls[k].b \notin {0, 1})) =>
      raised = InvalidSignalMsg

-----------------------------------------------------------------------------
(* C15: after any add_to_agenda and remove_first_agenda_item calls on an   *)
(* agenda made by make_agenda, empty_agenda_p is true exactly when every   *)
(* action added has been removed: as many removals as additions.  (A       *)
(* remove_first_agenda_item call that raises removes nothing.)             *)
C15_EmptyIffAllRemoved ==
  /\ empty_agenda_p(heap, agenda) <=> Len(removed) = Len(sched)
  /\ empty_agenda_p(heap, agenda) <=> Pending = { }

(* Two actions for time 1 and one for time 2, all three taken off by       *)
(* remove_first_agenda_item calls (no propagate has run), the last call    *)
(* made on the agenda as it was left empty.                                *)
C15_Witness ==
  /\ sched = << 1, 2, 1 >>
  /\ removed = << 1, 3, 2 >>
  /\ executed = << >>
  /\ empty_agenda_p(heap, agenda)
  /\ raised = DeleteEmptyMsg

-----------------------------------------------------------------------------
(* C16: a first_agenda_item call on an agenda with no segments raises the  *)
(* SchemeError "Agenda is empty -- FIRST-AGENDA-ITEM" and leaves the       *)
(* agenda's current time and its (empty) list of segments as they were.    *)
C16_FirstOfEmptyRaises ==
  [][(empty_agenda_p(heap, agenda) /\ FirstAgendaItem) =>
       (/\ raised' = AgendaEmptyMsg
        /\ current_time(heap', agenda') = current_time(heap, agenda)
        /\ segments(heap', agenda') = segments(heap, agenda)
        /\ heap' = heap)]_vars

(* first_agenda_item has raised on an agenda that two actions had been     *)
(* added to and taken off, with the current time left at 2.                *)
C16_Witness ==
  /\ raised = AgendaEmptyMsg
  /\ empty_agenda_p(heap, agenda)
  /\ current_time(heap, agenda) = 2
  /\ Len(sched) = 2 /\ Len(removed) = 2

-----------------------------------------------------------------------------
(* C17: on an empty queue front_queue raises the SchemeError "FRONT called *)
(* with an empty queue" and delete_queue the SchemeError "DELETE! called   *)
(* with an empty queue", and both leave the front and rear pointers as     *)
(* they were; on a queue that is not empty front_queue returns the item    *)
(* at the front (the earliest inserted and not deleted) and leaves every   *)
(* pair as it was.                                                         *)
C17_EmptyQueueRaises ==
  [][/\ (empty_queue_p(heap, q) /\ FrontQueue) =>
          (/\ raised' = FrontEmptyMsg
           /\ front_ptr(heap', q) = front_ptr(heap, q)
           /\ rear_ptr(heap', q) = rear_ptr(heap, q))
     /\ (empty_queue_p(heap, q) /\ DeleteQueue) =>
          (/\ raised' = DeleteEmptyMsg
           /\ front_ptr(heap', q) = front_ptr(heap, q)
           /\ rear_ptr(heap', q) = rear_ptr(heap, q))
     /\ (~empty_queue_p(heap, q) /\ FrontQueue) =>
          (/\ raised' = ""
           /\ ret' = qin[Len(qout) + 1]
           /\ heap' = heap)]_vars

(* delete_queue has raised on a queue drained of its two items, whose rear *)
(* pointer still is the pair of the second one.                            *)
C17_Witness ==
  /\ raised = DeleteEmptyMsg
  /\ Len(qin) = 2 /\ Len(qout) = 2
  /\ front_ptr(heap, q) = NULL
  /\ rear_ptr(heap, q) = 3

-----------------------------------------------------------------------------
(* C18: from make_queue(), after insert 'a' the queue pair is rendered     *)
(* ((a) a), after insert 'b' ((a b) b), after a delete ((b) b) and after a *)
(* second delete (() b).  A delete_queue that takes an item off leaves the *)
(* rear pointer as it was, so a queue drained of all its items has a front *)
(* pointer that is None and a rear pointer that still is the pair made     *)
(* for the last item inserted.                                             *)
C18_StaleRearPointer ==
  /\ [](/\ (qin = << "a" >> /\ qout = << >>) => repr(heap, q) = "((a) a)"
        /\ (qin = << "a", "b" >> /\ qout = << >>) => repr(heap, q) = "((a b) b)"
        /\ (qin = << "a", "b" >> /\ qout = << "a" >>) => repr(heap, q) = "((b) b)"
        /\ (qin = << "a", "b" >> /\ qout = << "a", "b" >>) => repr(heap, q) = "(() b)"
        /\ (Len(qin) > 0 /\ Len(qout) = Len(qin)) =>
             (/\ front_ptr(heap, q) = NULL
              /\ rear_ptr(heap, q) = Len(heap)
              /\ car(heap, rear_ptr(heap, q)) = qin[Len(qin)]))
  /\ [][Len(qout') = Len(qout) + 1 => rear_ptr(heap', q) = rear_ptr(heap, q)]_vars

(* ex_3_21 at its end: 'a' and 'b' inserted, then both deleted. *)
C18_Witness ==
  /\ qin = << "a", "b" >> /\ qout = << "a", "b" >>
  /\ chain(heap, 2) = << "a", "b" >>
  /\ repr(heap, q) = "(() b)"

-----------------------------------------------------------------------------
(* The lone and-gate: wires 1 and 2 are a1 and a2, wire 3 the output. *)

(* The last two set_signal calls, k and k + 1: with the agenda run to      *)
(* completion, a2 at 1 and the output displayed as 0, a1 is changed from 0 *)
(* to 1, and then, at the same current time with no propagate in between,  *)
(* a2 is changed from 1 to 0.                                              *)
ZeroOneToOneZero(k) ==
  /\ k + 1 = Len(calls)
  /\ calls[k].wire = 1 /\ calls[k].old = 0 /\ calls[k].value = 1
  /\ calls[k].settled
  /\ log[calls[k].at].value = 0
  /\ calls[k + 1].wire = 2 /\ calls[k + 1].old = 1 /\ calls[k + 1].value = 0
  /\ calls[k + 1].time = calls[k].time
  /\ ~calls[k + 1].settled

(* The ids of the actions in the queue of the agenda's first segment. *)
FirstSegmentIds ==
  LET items == chain(heap, front_ptr(heap, segment_queue(heap, first_segment(heap, agenda))))
  IN  [n \in 1 .. Len(items) |-> items[n].id]

(* C19: when the inputs of an and-gate settled at (0, 1) with output 0 are *)
(* changed to (1, 1) and then to (1, 0) at the same time, the two calls    *)
(* add two actions for the same later time, which sit in one segment in    *)
(* the order they were added and are run by propagate in that order: the   *)
(* output is set to 1 and then to 0, and is 0 once propagate has returned. *)
C19_SameSegmentInOrder ==
  \A k \in 1 .. Len(calls) - 1 :
    ZeroOneToOneZero(k) =>
      LET n == Len(sched)
      IN  /\ sched[n - 1] = sched[n] /\ sched[n] > calls[k].time
          /\ (n - 1 \in Pending /\ n \in Pending) =>
               (/\ segment_time(heap, first_segment(heap, agenda)) = sched[n]
                /\ FirstSegmentIds = << n - 1, n >>)
          /\ (n - 1 \notin Pending /\ n \in Pending) => FirstSegmentIds = << n >>
          /\ n \in Range(ExecutedIds) =>
               (/\ n - 1 \in Range(ExecutedIds)
                /\ Pos(ExecutedIds, n - 1) < Pos(ExecutedIds, n))
          /\ Settled =>
               (/\ get_signal(St, 3) = 0
                /\ SubSeq(log, Len(log) - 1, Len(log))
                     = << Line("output", sched[n], 1), Line("output", sched[n], 0) >>)

(* a2 set to 1 and propagated, then a1 set to 1 and a2 to 0 at that time,  *)
(* and propagate run to completion: the output went to 1 and back to 0.    *)
C19_Witness ==
  /\ Len(calls) = 3 /\ ZeroOneToOneZero(2)
  /\ Settled
  /\ get_signal(St, 1) = 1 /\ get_signal(St, 2) = 0 /\ get_signal(St, 3) = 0
  /\ log[Len(log) - 1].value = 1 /\ log[Len(log)].value = 0
  /\ log[Len(log)].time = sched[Len(sched)]

-----------------------------------------------------------------------------
(* C20: after_delay(d, action) called at current time T leaves the agenda  *)
(* as add_to_agenda(T + d, action, agenda) leaves it: the action is on the *)
(* agenda for time T + d, and when propagate runs it the current time is   *)
(* T + d, never a time before that.                                        *)
C20_AfterDelayIsAddAtSum ==
  /\ [](\A j \in 1 .. Len(calls) :
          LET c == calls[j]
          IN  /\ sched[c.action.id] = c.time + c.delay
              /\ \A k \in 1 .. Len(executed) :
                   executed[k].id = c.action.id =>
                     executed[k].time = c.time + c.delay)
  /\ [][Len(calls') = Len(calls) + 1 =>
         LET c == calls'[Len(calls')]
         IN  heap' = add_to_agenda(heap, c.time + c.delay, c.action, agenda)]_vars

(* after_delay(2, ...) was called at current time 1, where an action added *)
(* with delay 1 had taken the agenda, and propagate has run its action at  *)
(* time 3.                                                                 *)
C20_Witness ==
  /\ Len(calls) = 2
  /\ calls[1].delay = 1 /\ calls[1].time = 0
  /\ calls[2].delay = 2 /\ calls[2].time = 1
  /\ Len(executed) = 2
  /\ executed[2] = [id |-> calls[2].action.id, time |-> 3]

-----------------------------------------------------------------------------
(* The step is a first_agenda_item call by the driver (FirstAgendaItem) or *)
(* a turn of propagate's loop, which calls it (PropagateStep).             *)
CallsFirstAgendaItem ==
  \/ pc' = pc /\ FirstAgendaItem
  \/ Len(executed') = Len(executed) + 1
  \/ pc = "propagate" /\ pc' = "idle" /\ raised' # ""

(* C21: the current time of an agenda is 0 when make_agenda has made it    *)
(* and stays 0 until a first_agenda_item call; a first_agenda_item call on *)
(* an agenda that is not empty leaves it at the time the action it returns *)
(* was scheduled for; add_to_agenda and remove_first_agenda_item leave it  *)
(* as it was, in any state.                                                *)
C21_CurrentTime ==
  /\ current_time(heap, agenda) = 0
  /\ [][/\ ~CallsFirstAgendaItem =>
             current_time(heap', agenda') = current_time(heap, agenda)
        /\ (pc' = pc /\ ~empty_agenda_p(heap, agenda) /\ FirstAgendaItem) =>
             current_time(heap', agenda') = sched[ret'.id]
        /\ Len(executed') = Len(executed) + 1 =>
             current_time(heap', agenda') = sched[executed'[Len(executed')].id]]_vars
  /\ [](/\ \A time \in 0 .. MaxTime :
             current_time(add_to_agenda(heap, time, Lambda(St, NoWire, 0), agenda), agenda)
               = current_time(heap, agenda)
        /\ current_time(remove_first_agenda_item(heap, agenda), agenda)
             = current_time(heap, agenda))

(* Actions were added for times 2 and 1 with the current time still 0; the *)
(* one for time 1 has been taken off, and a first_agenda_item call by the  *)
(* driver has then returned the other and left the current time at 2.      *)
C21_Witness ==
  /\ sched = << 2, 1 >>
  /\ removed = << 2 >>
  /\ executed = << >>
  /\ ~early
  /\ current_time(heap, agenda) = 2

-----------------------------------------------------------------------------
(* An inverter whose output wire is its input wire has been attached. *)
SelfSustaining ==
  \E k \in 1 .. Len(observers) :
    /\ observers[k].proc.kind = "invert_input"
    /\ observers[k].proc.out = observers[k].wire

(* C22: once an inverter whose output is its input is attached to a wire,  *)
(* the agenda is not empty whenever the loop of propagate tests it, and a  *)
(* propagate that has been called stays in its loop: it does not return    *)
(* and no error ends it.                                                   *)
C22_PropagateNeverReturns ==
  /\ []((SelfSustaining /\ pc = "propagate") => ~empty_agenda_p(heap, agenda))
  /\ [][(SelfSustaining /\ pc = "propagate") =>
          (pc' = "propagate" /\ raised' = "")]_vars

(* propagate has gone round its loop MaxSteps times on a wire with such an *)
(* inverter, the wire has changed at each of the last turns, and another   *)
(* action is waiting for a later time.                                     *)
C22_Witness ==
  /\ SelfSustaining
  /\ pc = "propagate"
  /\ Len(executed) = MaxSteps
  /\ Len(observers) = 1 /\ Len(calls) = 0
  /\ Len(invoked) = MaxSteps + 1
  /\ ~empty_agenda_p(heap, agenda)
  /\ segment_time(heap, first_segment(heap, agenda)) > current_time(heap, agenda)

-----------------------------------------------------------------------------
(* The times of the segments of the list segs, first segment first. *)
RECURSIVE SegmentTimes(_, _)
SegmentTimes(h, segs) ==
  IF null(segs)
    THEN << >>
    ELSE << segment_time(h, car(h, segs)) >> \o SegmentTimes(h, cdr(h, segs))

StrictlyIncreasing(seq) == \A k \in 1 .. Len(seq) - 1 : seq[k] < seq[k + 1]

(* C23: after any add_to_agenda and remove_first_agenda_item calls with    *)
(* times that are not negative, the times of the agenda's segments grow    *)
(* strictly from the first segment to the last, so no two are equal.       *)
C23_SegmentTimesIncrease ==
  LET times == SegmentTimes(heap, segments(heap, agenda))
  IN  /\ StrictlyIncreasing(times)
      /\ \A k, l \in 1 .. Len(times) : times[k] = times[l] => k = l

(* Actions added for times 2, 0 and 1 in this order: the segment for time  *)
(* 1 went in between the two others.                                       *)
C23_Witness ==
  /\ sched = << 2, 0, 1 >>
  /\ removed = << >>
  /\ SegmentTimes(heap, segments(heap, agenda)) = << 0, 1, 2 >>

-----------------------------------------------------------------------------
(* The last pair of the chain that starts at pair x (x is not None). *)
RECURSIVE LastPair(_, _)
LastPair(h, x) == IF null(cdr(h, x)) THEN x ELSE LastPair(h, cdr(h, x))

(* The items inserted and not yet deleted, in insertion order. *)
Remaining == SubSeq(qin, Len(qout) + 1, Len(qin))

(* C24: after any insert_queue and delete_queue calls, when the queue is   *)
(* not empty its rear pointer is the last pair of the chain that starts at *)
(* its front pointer, the rest of that pair is the empty list, and the     *)
(* chain holds the items inserted and not deleted, in insertion order.     *)
C24_RearIsLastPair ==
  ~empty_queue_p(heap, q) =>
    /\ rear_ptr(heap, q) = LastPair(heap, front_ptr(heap, q))
    /\ cdr(heap, rear_ptr(heap, q)) = NULL
    /\ chain(heap, front_ptr(heap, q)) = Remaining

(* 'a' was inserted and deleted, and 'b' and 'c' were inserted into the    *)
(* queue so drained: the pair of 'a' is not linked to them, and the rear   *)
(* pointer is the pair of 'c'.                                             *)
C24_Witness ==
  /\ qin = << "a", "b", "c" >> /\ qout = << "a" >>
  /\ chain(heap, 2) = << "a" >>
  /\ chain(heap, front_ptr(heap, q)) = << "b", "c" >>
  /\ rear_ptr(heap, q) = 4

-----------------------------------------------------------------------------
(* C25: a first_agenda_item call on an agenda that is not empty sets the   *)
(* current time to the time of the first segment and writes nothing else:  *)
(* the list of segments, the segments and their queues are as they were,   *)
(* and a second call made at once returns the same action and changes      *)
(* nothing.                                                                *)
C25_FirstRemovesNothing ==
  [][(pc' = pc /\ ~empty_agenda_p(heap, agenda) /\ FirstAgendaItem) =>
       (/\ current_time(heap', agenda') = segment_time(heap, first_segment(heap, agenda))
        /\ segments(heap', agenda') = segments(heap, agenda)
        /\ Len(heap') = Len(heap)
        /\ \A x \in 1 .. Len(heap) : x # agenda => heap'[x] = heap[x]
        /\ raised' = ""
        /\ ret' = front_queue(heap, segment_queue(heap, first_segment(heap, agenda)))
        /\ first_agenda_item(heap', agenda').value = ret'
        /\ first_agenda_item(heap', agenda').heap = heap')]_vars

(* Two actions were added at time 0, for times 1 and 2; a call of          *)
(* first_agenda_item by the driver has returned the first and set the      *)
(* current time to 1, and both are still on the agenda.                    *)
C25_Witness ==
  /\ pc = "idle"
  /\ Len(calls) = 2 /\ calls[1].time = 0 /\ calls[2].time = 0
  /\ sched = << 1, 2 >>
  /\ executed = << >> /\ removed = << >>
  /\ current_time(heap, agenda) = 1
  /\ SegmentTimes(heap, segments(heap, agenda)) = << 1, 2 >>
  /\ Pending = {1, 2}
  /\ ret.id = 1

-----------------------------------------------------------------------------
(* The action queues of the segments of the list segs, as the sequences of *)
(* their items, first segment first.                                       *)
RECURSIVE SegmentQueues(_, _)
SegmentQueues(h, segs) ==
  IF null(segs)
    THEN << >>
    ELSE << chain(h, front_ptr(h, segment_queue(h, car(h, segs)))) >>
           \o SegmentQueues(h, cdr(h, segs))

(* seq without its k-th element. *)
Without(seq, k) == SubSeq(seq, 1, k - 1) \o SubSeq(seq, k + 1, Len(seq))

(* C26: in every state reached by add_to_agenda, remove_first_agenda_item  *)
(* and propagate, every segment of the agenda has an action in its queue;  *)
(* a step that adds a segment adds it with one action, and a step that     *)
(* drops a segment drops the first one, which had one action left.         *)
C26_NoEmptySegment ==
  /\ [](\A k \in 1 .. Len(SegmentQueues(heap, segments(heap, agenda))) :
          SegmentQueues(heap, segments(heap, agenda))[k] # << >>)
  /\ [][LET before == SegmentQueues(heap, segments(heap, agenda))
            after == SegmentQueues(heap', segments(heap', agenda'))
        IN  /\ Len(after) > Len(before) =>
                 \E k \in 1 .. Len(after) :
                   Len(after[k]) = 1 /\ Without(after, k) = before
            /\ Len(after) < Len(before) =>
                 Len(before[1]) = 1 /\ after = Tail(before)]_vars

(* Two actions for time 1 and one for time 2: the segment for time 1 was   *)
(* dropped when its second action was taken off, not before, and the       *)
(* segment for time 2 is left with its action.                             *)
C26_Witness ==
  /\ sched = << 1, 2, 1 >>
  /\ removed = << 1, 3 >>
  /\ SegmentTimes(heap, segments(heap, agenda)) = << 2 >>
  /\ Len(SegmentQueues(heap, segments(heap, agenda))[1]) = 1

-----------------------------------------------------------------------------
(* The action at the front of the queue of the agenda's first segment. *)
FrontAction(h, ag) == front_queue(h, segment_queue(h, first_segment(h, ag)))

(* C27: on the half-adder, whose actions add actions through after_delay   *)
(* with the gates' delays and in no other way, each turn of propagate's    *)
(* loop takes off the agenda the action it has just run, the one           *)
(* first_agenda_item returned: the actions taken off are the actions run,  *)
(* in the same order, none is run twice, and once propagate has returned   *)
(* every action added has been run.  An after_delay call with any delay    *)
(* from 0 on, made after first_agenda_item has returned an action, leaves  *)
(* that action at the front of the first segment.                          *)
C27_RemovedIsExecuted ==
  /\ [](/\ removed = ExecutedIds
        /\ \A k, l \in 1 .. Len(executed) : executed[k].id = executed[l].id => k = l
        /\ Settled => AllExecuted
        /\ ~empty_agenda_p(heap, agenda) =>
             \A delay \in 0 .. MaxDelay :
               LET first == first_agenda_item(heap, agenda)
                   S1 == after_delay([St EXCEPT !.heap = first.heap], delay,
                                     Lambda(St, NoWire, 0))
               IN  FrontAction(S1.heap, agenda) = first.value)
  /\ [][Len(removed') = Len(removed) + 1 =>
          /\ removed'[Len(removed')] = first_agenda_item(heap, agenda).value.id
          /\ executed'[Len(executed')].id = removed'[Len(removed')]
          /\ Len(executed') = Len(executed) + 1]_vars

(* One set_signal call at time T and a propagate run to completion: an     *)
(* action that ran later than any action added at T could (the and-gate's, *)
(* added when the or-gate's action ran) was taken off as it ran.           *)
C27_Witness ==
  /\ Settled
  /\ Len(calls) = 1 /\ calls[1].old # calls[1].value
  /\ \E k \in 1 .. Len(executed) :
       /\ executed[k].time > calls[1].time + or_gate_delay
       /\ removed[k] = executed[k].id
  /\ Len(removed) = Len(sched)

-----------------------------------------------------------------------------
(* The queue has been drained: items were inserted and all of them deleted. *)
Drained == Len(qin) > 0 /\ Len(qout) = Len(qin)

(* C28: an insert_queue call on a queue that has been drained, whose rear  *)
(* pointer still is the pair of the last item deleted, sets the front and  *)
(* the rear pointer to the pair it makes and leaves the old pair as it     *)
(* was: the queue then holds the new item and nothing else.                *)
C28_InsertAfterDrain ==
  [][(Drained /\ Len(qin') = Len(qin) + 1) =>
       (/\ front_ptr(heap, q) = NULL
        /\ rear_ptr(heap, q) # NULL
        /\ front_ptr(heap', q) = Len(heap')
        /\ rear_ptr(heap', q) = Len(heap')
        /\ Len(heap') = Len(heap) + 1
        /\ heap'[rear_ptr(heap, q)] = heap[rear_ptr(heap, q)]
        /\ chain(heap', front_ptr(heap', q)) = << qin'[Len(qin')] >>
        /\ front_queue(heap', q) = qin'[Len(qin')]
        /\ ~empty_queue_p(heap', q))]_vars

(* 'a' and 'b' were inserted and deleted, and 'c' was inserted into the    *)
(* queue so drained: it is alone in the queue, and the pair of 'b', which  *)
(* the rear pointer had been left on, has nothing after it.                *)
C28_Witness ==
  /\ qin = << "a", "b", "c" >> /\ qout = << "a", "b" >>
  /\ chain(heap, 2) = << "a", "b" >>
  /\ chain(heap, front_ptr(heap, q)) = << "c" >>
  /\ front_ptr(heap, q) = 4 /\ rear_ptr(heap, q) = 4

-----------------------------------------------------------------------------
(* C29: on full_adder(a, b, c_in, sum, c_out), for any set_signal calls on *)
(* a, b and c_in with the values 0 and 1, once propagate has run to        *)
(* completion sum = a XOR b XOR c_in and c_out is 1 exactly when two or    *)
(* three of a, b and c_in are 1, for the values the inputs then have.      *)
C29_FullAdderSettles ==
  Settled =>
    LET ones == get_signal(St, 1) + get_signal(St, 2) + get_signal(St, 3)
    IN  /\ get_signal(St, 4) = ones % 2
        /\ get_signal(St, 5) = (IF ones >= 2 THEN 1 ELSE 0)

(* The three inputs were set to 1, with propagate run at some point, and   *)
(* the agenda has been run to completion: sum and c_out are 1.             *)
C29_Witness ==
  /\ Settled
  /\ Len(calls) = 3
  /\ [wire \in 1 .. 5 |-> get_signal(St, wire)] = << 1, 1, 1, 1, 1 >>

=============================================================================
